---- MODULE Spec2Model ----
(***************************************************************************)
(* Page-view analytics of the portfolio site (server.py): the after-request *)
(* hook track_page_view, the per-request SQLite connection and its implicit *)
(* transaction, and the read-only aggregation queries of the admin          *)
(* dashboard.                                                               *)
(*                                                                          *)
(* Text values (paths, content types, cookies, user agents) are TLA+        *)
(* strings, inspected character by character.  A timestamp text             *)
(* 'YYYY-MM-DD HH:MM:SS' is the pair <<day, second>>, a date text           *)
(* 'YYYY-MM-DD' is the 1-tuple <<day>>; texts compare lexicographically.    *)
(* ip_address and referrer are written by the code but read by no           *)
(* aggregation modelled here; the rows below omit them.                     *)
(***************************************************************************)
EXTENDS Integers, Sequences, FiniteSets, TLC

VARIABLES
    now,              \* wall clock read by CURRENT_TIMESTAMP / DATE('now')
    page_views,       \* committed rows of table page_views (id = index)
    unique_visitors,  \* committed rows of table unique_visitors (id = index)
    lock,             \* worker holding SQLite's write lock, 0 when free
    pc,               \* per worker: position in the request
    req,              \* per worker: the request being handled
    page,             \* per worker: the response the page handler produced
    resp,             \* per worker: the response as track_page_view returns it
    sid,              \* per worker: local session_id of track_page_view
    ts,               \* per worker: CURRENT_TIMESTAMP of its upsert statement
    txn,              \* per worker: the connection's uncommitted working copy
    failed,           \* per worker: where tracking raised, "" when it did not
    minted,           \* number of uuid4 identifiers generated so far
    nreq,             \* number of page requests started so far
    commits,          \* history: <<session, timestamp>> of each committed tracking
    before,           \* history, per worker: the tables as its request found them
    dash              \* per worker: the data its admin handler computed

vars == <<now, page_views, unique_visitors, lock, pc, req, page, resp, sid, ts,
          txn, failed, minted, nreq, commits, before, dash>>

----------------------------------------------------------------------------
(* Bounds of the model *)

MaxReq == 2     \* page requests started in one behaviour with storage errors
MaxViews == 3   \* page requests started in one behaviour of the other specifications
MaxSec == 1     \* clock ticks within one day: seconds 0..MaxSec
MaxDay == 7     \* calendar days 0..MaxDay

(* Program constants *)

PopularLimit == 10   \* LIMIT 10 of the popular-pages query
WindowBack == 6      \* DATE('now', '-6 days')

Workers == {1, 2}
NoLock == 0

----------------------------------------------------------------------------
(* Text helpers *)

StartsWith(s, p) == Len(s) >= Len(p) /\ SubSeq(s, 1, Len(p)) = p

\* Python's `p in s` on str: case-sensitive substring test
Contains(s, p) ==
    \E i \in 1..(Len(s) - Len(p) + 1) : SubSeq(s, i, i + Len(p) - 1) = p

UpperAZ == "ABCDEFGHIJKLMNOPQRSTUVWXYZ"
LowerAZ == "abcdefghijklmnopqrstuvwxyz"

\* the lower-case letter of each upper-case ASCII letter
LowerOf ==
    [c \in {SubSeq(UpperAZ, i, i) : i \in 1..26} |->
        LET i == CHOOSE k \in 1..26 : SubSeq(UpperAZ, k, k) = c
        IN  SubSeq(LowerAZ, i, i)]

\* SQLite folds the ASCII letters only when LIKE compares two characters
FoldCase(c) == IF c \in DOMAIN LowerOf THEN LowerOf[c] ELSE c

Drop(s, k) == SubSeq(s, k + 1, Len(s))

\* `s LIKE pat` of SQLite (default, case_sensitive_like off): % matches any run
\* of characters, _ one character, any other character itself up to ASCII case
RECURSIVE Like(_, _)
Like(s, pat) ==
    IF pat = "" THEN s = ""
    ELSE IF Head(pat) = "%"
         THEN \E k \in 0..Len(s) : Like(Drop(s, k), Tail(pat))
    ELSE IF s = "" THEN FALSE
    ELSE IF Head(pat) = "_" THEN Like(Tail(s), Tail(pat))
    ELSE FoldCase(Head(s)) = FoldCase(Head(pat)) /\ Like(Tail(s), Tail(pat))

\* lexicographic >= of two texts given as integer tuples (a proper prefix is less)
RECURSIVE TextGE(_, _)
TextGE(a, b) ==
    IF b = <<>> THEN TRUE
    ELSE IF a = <<>> THEN FALSE
    ELSE IF Head(a) # Head(b) THEN Head(a) > Head(b)
    ELSE TextGE(Tail(a), Tail(b))

\* DATE(t): the date part of a timestamp text
DateOf(t) == <<t[1]>>

\* DATE('now', '-6 days')
DateBack(t, n) == <<t[1] - n>>

----------------------------------------------------------------------------
(* Values *)

NoCookie == [has |-> FALSE, val |-> ""]
Cookie(v) == [has |-> TRUE, val |-> v]
NoTime == <<>>
NoTables == [uv |-> <<>>, pv |-> <<>>]
NoTxn == [open |-> FALSE, uv |-> <<>>, pv |-> <<>>]
Html == "text/html; charset=utf-8"

\* str(uuid.uuid4()): the n-th identifier generated; distinct from each other
\* and from every value a client invents
UuidTable == <<"uuid-1", "uuid-2", "uuid-3", "uuid-4", "uuid-5", "uuid-6">>
Uuid4(n) == UuidTable[n]

NoRequest == [path |-> "", cookie |-> NoCookie, ua |-> ""]
NoResponse == [status |-> 0, content_type |-> "", body |-> "", set_cookie |-> NoCookie]
NoDash == [kind |-> "none", asof |-> NoTime, total_views |-> 0,
           total_unique_visitors |-> 0, popular_pages |-> <<>>,
           browser_stats |-> <<>>, dates |-> <<>>, visits |-> <<>>]

----------------------------------------------------------------------------
(* track_page_view: the pure parts *)

\* the condition without its test of the status code
QualifiesAnyStatus(path, r) ==
    /\ r.content_type # ""
    /\ Contains(r.content_type, "text/html")
    /\ ~(StartsWith(path, "/static") \/ StartsWith(path, "/admin"))

\* the condition with the static prefix as its only excluded prefix
QualifiesAdminToo(path, r) ==
    /\ r.status = 200
    /\ r.content_type # ""
    /\ Contains(r.content_type, "text/html")
    /\ ~StartsWith(path, "/static")

\* the condition under which a response is recorded
Qualifies(path, r) ==
    /\ r.status = 200
    /\ r.content_type # ""
    /\ Contains(r.content_type, "text/html")
    /\ ~(StartsWith(path, "/static") \/ StartsWith(path, "/admin"))

\* `if session_id is None`: only a missing cookie
MustMintIfAbsent(cookie) == ~cookie.has

\* `if not session_id`: the cookie is missing, or present with an empty value
MustMint(cookie) == ~cookie.has \/ cookie.val = ""

\* INSERT OR REPLACE in place of the upsert: a known session's row is rewritten whole
UpsertVisitorReplace(uv, s, t) ==
    IF \E i \in DOMAIN uv : uv[i].session_id = s
    THEN [i \in DOMAIN uv |->
            IF uv[i].session_id = s
            THEN [session_id |-> s, first_visit |-> t, last_visit |-> t] ELSE uv[i]]
    ELSE Append(uv, [session_id |-> s, first_visit |-> t, last_visit |-> t])

\* INSERT INTO unique_visitors ... ON CONFLICT(session_id) DO UPDATE SET last_visit
UpsertVisitor(uv, s, t) ==
    IF \E i \in DOMAIN uv : uv[i].session_id = s
    THEN [i \in DOMAIN uv |->
            IF uv[i].session_id = s THEN [uv[i] EXCEPT !.last_visit = t] ELSE uv[i]]
    ELSE Append(uv, [session_id |-> s, first_visit |-> t, last_visit |-> t])

\* INSERT INTO page_views (session_id, page_url, ..., user_agent, ...); timestamp
\* takes its DEFAULT CURRENT_TIMESTAMP
InsertPageView(pv, s, path, ua, t) ==
    Append(pv, [session_id |-> s, page_url |-> path, user_agent |-> ua, timestamp |-> t])

\* no except clause: the error reaches the framework, which answers 500
OnTrackingErrorPropagate(r) ==
    [r EXCEPT !.status = 500, !.body = "Internal Server Error"]

\* the except clause: the error is printed, the response is left as it is
OnTrackingError(r) == r

----------------------------------------------------------------------------
(* Aggregation queries of the admin endpoints *)

\* all orders of the rows of S that ORDER BY key DESC may return, key[r] being
\* the key of row r (ties in any order)
OrderDesc(S, key) ==
    {q \in [1..Cardinality(S) -> S] :
        /\ \A i, j \in DOMAIN q : i # j => q[i] # q[j]
        /\ \A i, j \in DOMAIN q : i < j => key[q[i]] >= key[q[j]]}

\* the order ORDER BY date (ascending) returns, dates being distinct
OrderAsc(S) ==
    CHOOSE q \in [1..Cardinality(S) -> S] :
        \A i, j \in DOMAIN q : i < j => ~TextGE(q[i], q[j])

Limit(q, n) == IF Len(q) > n THEN SubSeq(q, 1, n) ELSE q

MaxTime(S) == CHOOSE t \in S : \A u \in S : TextGE(t, u)

\* SELECT COUNT(*) FROM page_views / unique_visitors
TotalViews(pv) == Len(pv)
TotalUniqueVisitors(uv) == Len(uv)

\* the grouping with COUNT(DISTINCT session_id) as views
PageGroupsDistinct(pv) ==
    {[page_url |-> u,
      views |-> Cardinality({pv[i].session_id : i \in {j \in DOMAIN pv : pv[j].page_url = u}}),
      last_viewed |-> MaxTime({pv[i].timestamp : i \in {j \in DOMAIN pv : pv[j].page_url = u}})]
     : u \in {pv[i].page_url : i \in DOMAIN pv}}

\* SELECT page_url, COUNT(*) AS views, MAX(timestamp) ... GROUP BY page_url
PageGroups(pv) ==
    {[page_url |-> u,
      views |-> Cardinality({i \in DOMAIN pv : pv[i].page_url = u}),
      last_viewed |-> MaxTime({pv[i].timestamp : i \in {j \in DOMAIN pv : pv[j].page_url = u}})]
     : u \in {pv[i].page_url : i \in DOMAIN pv}}

\* ... ORDER BY views DESC LIMIT n: every result the store may return
PopularPages(pv, n) ==
    LET G == PageGroups(pv)
    IN  {Limit(q, n) : q \in OrderDesc(G, [g \in G |-> g.views])}

\* the CASE expression with the Safari branch tried first
BrowserSafariFirst(ua) ==
    IF Like(ua, "%Safari%") THEN "Safari"
    ELSE IF Like(ua, "%Chrome%") THEN "Chrome"
    ELSE IF Like(ua, "%Firefox%") THEN "Firefox"
    ELSE IF Like(ua, "%Edge%") THEN "Edge"
    ELSE "Other"

\* the CASE expression of the browser breakdown
Browser(ua) ==
    IF Like(ua, "%Chrome%") THEN "Chrome"
    ELSE IF Like(ua, "%Firefox%") THEN "Firefox"
    ELSE IF Like(ua, "%Safari%") THEN "Safari"
    ELSE IF Like(ua, "%Edge%") THEN "Edge"
    ELSE "Other"

BrowserGroups(pv) ==
    LET browser == [i \in DOMAIN pv |-> Browser(pv[i].user_agent)] IN
    {[browser |-> b, count |-> Cardinality({i \in DOMAIN pv : browser[i] = b})]
     : b \in {browser[i] : i \in DOMAIN pv}}

\* ... GROUP BY browser ORDER BY count DESC
BrowserStats(pv) ==
    LET G == BrowserGroups(pv)
    IN  OrderDesc(G, [g \in G |-> g.count])

\* the chart query without its WHERE clause
VisitsOverTimeUnfiltered(pv, t) ==
    LET rows  == DOMAIN pv
        dates == OrderAsc({DateOf(pv[i].timestamp) : i \in rows})
    IN  [dates  |-> dates,
         visits |-> [k \in DOMAIN dates |->
                       Cardinality({i \in rows : DateOf(pv[i].timestamp) = dates[k]})]]

\* SELECT DATE(timestamp), COUNT(*) ... WHERE timestamp >= DATE('now','-6 days')
\* GROUP BY DATE(timestamp) ORDER BY date, split into the two lists of the reply
VisitsOverTime(pv, t) ==
    LET rows  == {i \in DOMAIN pv : TextGE(pv[i].timestamp, DateBack(t, WindowBack))}
        dates == OrderAsc({DateOf(pv[i].timestamp) : i \in rows})
    IN  [dates  |-> dates,
         visits |-> [k \in DOMAIN dates |->
                       Cardinality({i \in rows : DateOf(pv[i].timestamp) = dates[k]})]]

\* requires_admin: what the decorator does with the request
RequiresAdmin(configured, authorized) ==
    IF ~configured THEN "error"
    ELSE IF ~authorized THEN "challenge"
    ELSE "call"

----------------------------------------------------------------------------
(* State after start-up: init_db has created the two empty tables *)

Init ==
    /\ now = <<0, 0>>
    /\ page_views = <<>>
    /\ unique_visitors = <<>>
    /\ lock = NoLock
    /\ pc = [w \in Workers |-> "idle"]
    /\ req = [w \in Workers |-> NoRequest]
    /\ page = [w \in Workers |-> NoResponse]
    /\ resp = [w \in Workers |-> NoResponse]
    /\ sid = [w \in Workers |-> ""]
    /\ ts = [w \in Workers |-> NoTime]
    /\ txn = [w \in Workers |-> NoTxn]
    /\ failed = [w \in Workers |-> ""]
    /\ minted = 0
    /\ nreq = 0
    /\ commits = <<>>
    /\ before = [w \in Workers |-> NoTables]
    /\ dash = [w \in Workers |-> NoDash]

----------------------------------------------------------------------------
(* One request: the handler's response, then track_page_view step by step, *)
(* then close_analytics_db                                                  *)

\* a worker takes a request; r is the response its handler produced, and the
\* hook's opening condition decides whether tracking runs
Begin(w, path, cookie, ua, r) ==
    /\ pc[w] = "idle"
    /\ req' = [req EXCEPT ![w] = [path |-> path, cookie |-> cookie, ua |-> ua]]
    /\ page' = [page EXCEPT ![w] = r]
    /\ resp' = [resp EXCEPT ![w] = r]
    /\ before' = [before EXCEPT ![w] = [uv |-> unique_visitors, pv |-> page_views]]
    /\ pc' = [pc EXCEPT ![w] = IF Qualifies(path, r) THEN "resolve" ELSE "teardown"]
    /\ UNCHANGED <<now, page_views, unique_visitors, lock, sid, ts, txn, failed,
                   minted, commits>>

\* a request served by the page routes, the static files or the error pages
PageRequest(w, path, cookie, ua, status, ctype) ==
    /\ nreq' = nreq + 1
    /\ Begin(w, path, cookie, ua,
             [status |-> status, content_type |-> ctype, body |-> "page",
              set_cookie |-> NoCookie])
    /\ UNCHANGED dash

\* analytics_dashboard behind requires_admin
DashboardRequest(w, cookie, configured, authorized) ==
    LET gate == RequiresAdmin(configured, authorized) IN
    /\ Begin(w, "/admin/analytics", cookie, "",
             [status |-> IF gate = "call" THEN 200 ELSE IF gate = "error" THEN 500 ELSE 401,
              content_type |-> Html,
              body |-> IF gate = "call" THEN "dashboard" ELSE gate,
              set_cookie |-> NoCookie])
    /\ IF gate = "call"
       THEN \E pp \in PopularPages(page_views, PopularLimit), bs \in BrowserStats(page_views) :
               dash' = [dash EXCEPT ![w] = [NoDash EXCEPT !.kind = "dashboard", !.asof = now,
                          !.total_views = TotalViews(page_views),
                          !.total_unique_visitors = TotalUniqueVisitors(unique_visitors),
                          !.popular_pages = pp, !.browser_stats = bs]]
       ELSE UNCHANGED dash
    /\ UNCHANGED nreq

\* visits_over_time_api behind requires_admin
ChartRequest(w, cookie, configured, authorized) ==
    LET gate == RequiresAdmin(configured, authorized) IN
    /\ Begin(w, "/admin/analytics/api/visits-over-time", cookie, "",
             [status |-> IF gate = "call" THEN 200 ELSE IF gate = "error" THEN 500 ELSE 401,
              content_type |-> IF gate = "call" THEN "application/json" ELSE Html,
              body |-> IF gate = "call" THEN "chart" ELSE gate,
              set_cookie |-> NoCookie])
    /\ IF gate = "call"
       THEN LET v == VisitsOverTime(page_views, now) IN
            dash' = [dash EXCEPT ![w] = [NoDash EXCEPT !.kind = "chart", !.asof = now,
                       !.dates = v.dates, !.visits = v.visits]]
       ELSE UNCHANGED dash
    /\ UNCHANGED nreq

\* get_analytics_db, then the session id: the cookie's value, or a new uuid4
\* announced with set_cookie
ResolveSession(w) ==
    /\ pc[w] = "resolve"
    /\ IF MustMint(req[w].cookie)
       THEN /\ minted < Len(UuidTable)
            /\ minted' = minted + 1
            /\ sid' = [sid EXCEPT ![w] = Uuid4(minted + 1)]
            /\ resp' = [resp EXCEPT ![w].set_cookie = Cookie(Uuid4(minted + 1))]
       ELSE /\ sid' = [sid EXCEPT ![w] = req[w].cookie.val]
            /\ UNCHANGED <<minted, resp>>
    /\ pc' = [pc EXCEPT ![w] = "upsert"]
    /\ UNCHANGED <<now, page_views, unique_visitors, lock, req, page, ts, txn,
                   failed, nreq, commits, before, dash>>

\* the upsert on a connection in autocommit mode: stored at once, lock released
UpsertAutocommit(w) ==
    /\ pc[w] = "upsert"
    /\ lock = NoLock
    /\ unique_visitors' = UpsertVisitor(unique_visitors, sid[w], now)
    /\ ts' = [ts EXCEPT ![w] = now]
    /\ txn' = [txn EXCEPT ![w] = [open |-> TRUE,
                                   uv |-> UpsertVisitor(unique_visitors, sid[w], now),
                                   pv |-> page_views]]
    /\ pc' = [pc EXCEPT ![w] = "insert"]
    /\ UNCHANGED <<now, page_views, lock, req, page, resp, sid, failed,
                   minted, nreq, commits, before, dash>>

\* the upsert on a store without write locking: it neither waits for nor takes the lock
UpsertUnlocked(w) ==
    /\ pc[w] = "upsert"
    /\ ts' = [ts EXCEPT ![w] = now]
    /\ txn' = [txn EXCEPT ![w] = [open |-> TRUE,
                                   uv |-> UpsertVisitor(unique_visitors, sid[w], now),
                                   pv |-> page_views]]
    /\ pc' = [pc EXCEPT ![w] = "insert"]
    /\ UNCHANGED <<now, page_views, unique_visitors, lock, req, page, resp, sid, failed,
                   minted, nreq, commits, before, dash>>

\* the first db.execute: the connection begins its transaction, takes the write
\* lock and runs the upsert on its working copy
Upsert(w) ==
    /\ pc[w] = "upsert"
    /\ lock = NoLock
    /\ lock' = w
    /\ ts' = [ts EXCEPT ![w] = now]
    /\ txn' = [txn EXCEPT ![w] = [open |-> TRUE,
                                   uv |-> UpsertVisitor(unique_visitors, sid[w], now),
                                   pv |-> page_views]]
    /\ pc' = [pc EXCEPT ![w] = "insert"]
    /\ UNCHANGED <<now, page_views, unique_visitors, req, page, resp, sid, failed,
                   minted, nreq, commits, before, dash>>

\* the first db.execute when another connection keeps the write lock until the
\* busy timeout: sqlite3.OperationalError, caught by the except clause
UpsertBusy(w) ==
    /\ pc[w] = "upsert"
    /\ lock \notin {NoLock, w}
    /\ failed' = [failed EXCEPT ![w] = "busy"]
    /\ resp' = [resp EXCEPT ![w] = OnTrackingError(resp[w])]
    /\ pc' = [pc EXCEPT ![w] = "teardown"]
    /\ UNCHANGED <<now, page_views, unique_visitors, lock, req, page, sid, ts, txn,
                   minted, nreq, commits, before, dash>>

\* the second db.execute, in the same transaction
InsertView(w) ==
    /\ pc[w] = "insert"
    /\ txn' = [txn EXCEPT ![w].pv =
                  InsertPageView(txn[w].pv, sid[w], req[w].path, req[w].ua, now)]
    /\ pc' = [pc EXCEPT ![w] = "commit"]
    /\ UNCHANGED <<now, page_views, unique_visitors, lock, req, page, resp, sid, ts,
                   failed, minted, nreq, commits, before, dash>>

\* db.commit(): the working copy becomes the stored tables, the lock is released
Commit(w) ==
    /\ pc[w] = "commit"
    /\ unique_visitors' = txn[w].uv
    /\ page_views' = txn[w].pv
    /\ lock' = NoLock
    /\ txn' = [txn EXCEPT ![w] = NoTxn]
    /\ commits' = Append(commits, <<sid[w], ts[w]>>)
    /\ pc' = [pc EXCEPT ![w] = "teardown"]
    /\ UNCHANGED <<now, req, page, resp, sid, ts, failed, minted, nreq, before, dash>>

\* an exception raised by get_analytics_db, by either statement or by the
\* commit: control passes to the except clause and the hook returns the response
Raise(w) ==
    /\ pc[w] \in {"resolve", "upsert", "insert", "commit"}
    /\ failed' = [failed EXCEPT ![w] = pc[w]]
    /\ resp' = [resp EXCEPT ![w] = OnTrackingError(resp[w])]
    /\ pc' = [pc EXCEPT ![w] = "teardown"]
    /\ UNCHANGED <<now, page_views, unique_visitors, lock, req, page, sid, ts, txn,
                   minted, nreq, commits, before, dash>>

\* the response leaves and the request ends; close_analytics_db closes the
\* connection, which rolls back whatever it had not committed and frees its lock
Teardown(w) ==
    /\ pc[w] = "teardown"
    /\ txn' = [txn EXCEPT ![w] = NoTxn]
    /\ lock' = IF lock = w THEN NoLock ELSE lock
    /\ pc' = [pc EXCEPT ![w] = "idle"]
    /\ req' = [req EXCEPT ![w] = NoRequest]
    /\ page' = [page EXCEPT ![w] = NoResponse]
    /\ resp' = [resp EXCEPT ![w] = NoResponse]
    /\ sid' = [sid EXCEPT ![w] = ""]
    /\ ts' = [ts EXCEPT ![w] = NoTime]
    /\ failed' = [failed EXCEPT ![w] = ""]
    /\ dash' = [dash EXCEPT ![w] = NoDash]
    /\ before' = [before EXCEPT ![w] = NoTables]
    /\ UNCHANGED <<now, page_views, unique_visitors, minted, nreq, commits>>

\* the clock advances within the day
Tick ==
    /\ now[2] < MaxSec
    /\ now' = <<now[1], now[2] + 1>>
    /\ UNCHANGED <<page_views, unique_visitors, lock, pc, req, page, resp, sid, ts,
                   txn, failed, minted, nreq, commits, before, dash>>

\* midnight passes
NextDay ==
    /\ now[1] < MaxDay
    /\ now' = <<now[1] + 1, 0>>
    /\ UNCHANGED <<page_views, unique_visitors, lock, pc, req, page, resp, sid, ts,
                   txn, failed, minted, nreq, commits, before, dash>>

----------------------------------------------------------------------------
(* Requests the clients send *)

\* a client presents no cookie, a value it invented, or the identifier the site
\* handed out last
Cookies(invented) ==
    {NoCookie} \cup {Cookie(v) : v \in invented \cup {Uuid4(k) : k \in {minted} \ {0}}}

TrackedPaths == {"/", "/about.html"}
ExcludedPaths == {"/static/style.css", "/admin.html"}
Unrecorded == {<<404, Html>>, <<200, "text/plain">>, <<200, "">>}

(* Page requests handled one after another by one worker, storage errors included *)
Next ==
    \/ \E path \in TrackedPaths, c \in Cookies({"", "abc"}) :
          nreq < MaxReq /\ PageRequest(1, path, c, "", 200, Html)
    \/ \E path \in TrackedPaths, c \in Cookies({}), r \in Unrecorded :
          nreq < MaxReq /\ PageRequest(1, path, c, "", r[1], r[2])
    \/ \E path \in ExcludedPaths, c \in Cookies({}) :
          nreq < MaxReq /\ PageRequest(1, path, c, "", 200, Html)
    \/ ResolveSession(1)
    \/ Upsert(1)
    \/ InsertView(1)
    \/ Commit(1)
    \/ Raise(1)
    \/ Teardown(1)
    \/ Tick

Spec == Init /\ [][Next]_vars

(* Visitors and the operator: page requests and the two admin endpoints, with *)
(* and without configured credentials and authorization                      *)
NextAdmin ==
    \/ \E path \in {"/", "/admin.html"}, c \in {NoCookie, Cookie("abc")} :
          nreq < MaxViews /\ PageRequest(1, path, c, "", 200, Html)
    \/ \E c \in {NoCookie, Cookie("abc")}, configured, authorized \in BOOLEAN :
          DashboardRequest(1, c, configured, authorized)
    \/ \E c \in {NoCookie, Cookie("abc")}, configured, authorized \in BOOLEAN :
          ChartRequest(1, c, configured, authorized)
    \/ ResolveSession(1)
    \/ Upsert(1)
    \/ InsertView(1)
    \/ Commit(1)
    \/ Teardown(1)
    \/ Tick

SpecAdmin == Init /\ [][NextAdmin]_vars

(* Two workers handle requests of one browser and of a second one at once *)
NextConc ==
    \/ \E w \in Workers, c \in {Cookie("abc"), Cookie("xyz")} :
          nreq < MaxViews /\ PageRequest(w, "/", c, "", 200, Html)
    \/ \E w \in Workers : ResolveSession(w)
    \/ \E w \in Workers : Upsert(w)
    \/ \E w \in Workers : UpsertBusy(w)
    \/ \E w \in Workers : InsertView(w)
    \/ \E w \in Workers : Commit(w)
    \/ \E w \in Workers : Raise(w)
    \/ \E w \in Workers : Teardown(w)
    \/ Tick

SpecConc == Init /\ [][NextConc]_vars

UserAgents ==
    {"Chrome/120 Safari/537", "Firefox/121", "Safari/605", "Edge/18", "curl/8.4",
     "firefox-bot"}

(* Browsers of several kinds visit the home page; the operator opens the dashboard *)
NextBrowsers ==
    \/ \E ua \in UserAgents :
          nreq < MaxViews /\ PageRequest(1, "/", Cookie("abc"), ua, 200, Html)
    \/ DashboardRequest(1, NoCookie, TRUE, TRUE)
    \/ ResolveSession(1)
    \/ Upsert(1)
    \/ InsertView(1)
    \/ Commit(1)
    \/ Teardown(1)

SpecBrowsers == Init /\ [][NextBrowsers]_vars

(* Visitors of two browsers view three pages; the operator opens the dashboard *)
NextPages ==
    \/ \E path \in TrackedPaths \cup {"/contact.html"}, c \in {Cookie("abc"), Cookie("xyz")} :
          nreq < MaxViews /\ PageRequest(1, path, c, "", 200, Html)
    \/ DashboardRequest(1, NoCookie, TRUE, TRUE)
    \/ ResolveSession(1)
    \/ Upsert(1)
    \/ InsertView(1)
    \/ Commit(1)
    \/ Teardown(1)

SpecPages == Init /\ [][NextPages]_vars

(* Visits spread over several days; the operator asks for the chart *)
NextDays ==
    \/ nreq < MaxViews /\ PageRequest(1, "/", Cookie("abc"), "", 200, Html)
    \/ ChartRequest(1, NoCookie, TRUE, TRUE)
    \/ ResolveSession(1)
    \/ Upsert(1)
    \/ InsertView(1)
    \/ Commit(1)
    \/ Teardown(1)
    \/ NextDay

SpecDays == Init /\ [][NextDays]_vars

----------------------------------------------------------------------------
(* Properties *)

Min(S) == CHOOSE x \in S : \A y \in S : x <= y
Max(S) == CHOOSE x \in S : \A y \in S : x >= y

\* the committed trackings of session s, in the order they were processed
CommitsOf(s) == {i \in DOMAIN commits : commits[i][1] = s}
RowsOf(s) == {i \in DOMAIN unique_visitors : unique_visitors[i].session_id = s}
SessionsSeen ==
    {commits[i][1] : i \in DOMAIN commits}
        \cup {unique_visitors[i].session_id : i \in DOMAIN unique_visitors}

\* C1: after any number of recorded requests of a session, unique_visitors holds
\* exactly one row for it, with first_visit the timestamp of the first of them
\* and last_visit the timestamp of the latest; first_visit therefore never moves.
\* A session none of whose requests was recorded has no row.
C1_OneRowFirstLast ==
    \A s \in SessionsSeen :
        /\ CommitsOf(s) # {}
        /\ Cardinality(RowsOf(s)) = 1
        /\ \A i \in RowsOf(s) :
              /\ unique_visitors[i].first_visit = commits[Min(CommitsOf(s))][2]
              /\ unique_visitors[i].last_visit = commits[Max(CommitsOf(s))][2]

\* a session recorded more than once, at different times
C1_Witness ==
    \E s \in SessionsSeen :
        /\ Cardinality(CommitsOf(s)) >= 2
        /\ \E i \in RowsOf(s) :
              unique_visitors[i].first_visit # unique_visitors[i].last_visit

\* the three conditions of a qualifying request, on worker w's request and the
\* response its handler produced
IsQualifying(w) ==
    /\ page[w].status = 200
    /\ Contains(page[w].content_type, "text/html")
    /\ ~StartsWith(req[w].path, "/static")
    /\ ~StartsWith(req[w].path, "/admin")

\* the hook has returned worker w's response
Returned(w) == pc[w] = "teardown"

\* C2: when track_page_view has handled a request, page_views holds exactly one
\* row more than before if the request was qualifying (and tracking raised no
\* error), that row carrying the request path as page_url; it holds the same
\* rows as before if the request was not qualifying.
C2_OneRowPerQualifying ==
    \A w \in Workers : Returned(w) =>
        IF IsQualifying(w)
        THEN failed[w] = "" =>
                /\ Len(page_views) = Len(before[w].pv) + 1
                /\ SubSeq(page_views, 1, Len(before[w].pv)) = before[w].pv
                /\ page_views[Len(page_views)].page_url = req[w].path
        ELSE page_views = before[w].pv

\* both cases occur: a recorded qualifying request, and a 404 page left unrecorded
C2_Witness ==
    \E w \in Workers :
        /\ Returned(w) /\ IsQualifying(w) /\ failed[w] = ""
        /\ req[w].path = "/about.html"
        /\ Len(before[w].pv) >= 1

\* tracking of worker w's request has resolved its session
Resolved(w) ==
    /\ IsQualifying(w)
    /\ pc[w] \in {"upsert", "insert", "commit", "teardown"}
    /\ failed[w] # "resolve"

\* the session ids of the rows a request found in the two tables
KnownBefore(w) ==
    {before[w].uv[i].session_id : i \in DOMAIN before[w].uv}
        \cup {before[w].pv[i].session_id : i \in DOMAIN before[w].pv}

\* the rows worker w's request has written are keyed by its session id
KeyedBySid(w) ==
    (Returned(w) /\ failed[w] = "") =>
        /\ page_views[Len(page_views)].session_id = sid[w]
        /\ \E i \in DOMAIN unique_visitors :
              /\ unique_visitors[i].session_id = sid[w]
              /\ unique_visitors[i].last_visit = ts[w]

\* C3 as stated: whenever the request carries the cookie, its value is the key
\* and no cookie is set; otherwise an identifier is minted and set.
C3_AsStated ==
    \A w \in Workers : Resolved(w) =>
        IF req[w].cookie.has
        THEN sid[w] = req[w].cookie.val /\ resp[w].set_cookie = NoCookie
        ELSE sid[w] \notin KnownBefore(w) /\ resp[w].set_cookie = Cookie(sid[w])

\* C3, amended: a cookie with a non-empty value is used verbatim as the key of
\* both rows and no cookie is set; a missing cookie or one with an empty value
\* makes the hook mint a new identifier, which keys both rows and is set as the
\* cookie.  A cookie is set exactly when an identifier was minted: never on a
\* request that is not qualifying or whose storage could not be opened.
C3_SessionResolution ==
    \A w \in Workers :
        /\ Resolved(w) =>
              /\ KeyedBySid(w)
              /\ IF req[w].cookie.has /\ req[w].cookie.val # ""
                 THEN sid[w] = req[w].cookie.val /\ resp[w].set_cookie = NoCookie
                 ELSE /\ sid[w] \notin KnownBefore(w) \cup {"", "abc"}
                      /\ resp[w].set_cookie = Cookie(sid[w])
        /\ (Returned(w) /\ ~Resolved(w)) => resp[w].set_cookie = NoCookie

\* a recorded request that came without a cookie, after a returning client's
C3_Witness ==
    \E w \in Workers :
        /\ Resolved(w) /\ Returned(w) /\ failed[w] = "" /\ ~req[w].cookie.has
        /\ resp[w].set_cookie.has
        /\ \E i \in DOMAIN before[w].uv : before[w].uv[i].session_id = "abc"

\* C5: when any step of tracking raises, the hook still returns the response,
\* with the status, content type and body the page handler gave it.
C5_ErrorsSwallowed ==
    \A w \in Workers : (Returned(w) /\ failed[w] # "") =>
        /\ resp[w].status = page[w].status
        /\ resp[w].body = page[w].body
        /\ resp[w].content_type = page[w].content_type

\* the commit of a recorded visit raised
C5_Witness ==
    \E w \in Workers : Returned(w) /\ failed[w] = "commit" /\ resp[w].status = 200

\* C6: a request to a path under /admin, whatever its status, content type and
\* authorization, leaves page_views and unique_visitors as it found them, writes
\* nothing on its connection and gets no session cookie.
C6_AdminUntracked ==
    \A w \in Workers : (pc[w] # "idle" /\ StartsWith(req[w].path, "/admin")) =>
        /\ page_views = before[w].pv
        /\ unique_visitors = before[w].uv
        /\ ~txn[w].open
        /\ resp[w].set_cookie = NoCookie
        /\ Returned(w)

\* an authorized dashboard request, answered 200 with HTML, over a store with rows
C6_Witness ==
    \E w \in Workers :
        /\ Returned(w) /\ req[w].path = "/admin/analytics"
        /\ page[w].status = 200 /\ page[w].content_type = Html
        /\ dash[w].kind = "dashboard" /\ dash[w].total_views >= 1

RECURSIVE SumViews(_)
SumViews(q) == IF q = <<>> THEN 0 ELSE Head(q).views + SumViews(Tail(q))

PageUrls == {page_views[i].page_url : i \in DOMAIN page_views}

\* C8: the total-views count equals the sum of views over the popular-pages
\* grouping taken without a row limit; the grouping has one group per distinct
\* page_url and comes in non-increasing order of views.
C8_AggregationConsistent ==
    \A q \in PopularPages(page_views, Len(page_views)) :
        /\ SumViews(q) = TotalViews(page_views)
        /\ {q[i].page_url : i \in DOMAIN q} = PageUrls
        /\ Len(q) = Cardinality(PageUrls)
        /\ \A i, j \in DOMAIN q : i < j => q[i].views >= q[j].views

\* two pages, one of them viewed more often than the other
C8_Witness ==
    \E q \in PopularPages(page_views, Len(page_views)) :
        Len(q) = 2 /\ q[1].views > q[2].views

\* every page view belongs to a stored visitor
EveryViewHasVisitor ==
    \A i \in DOMAIN page_views : RowsOf(page_views[i].session_id) # {}

\* a request whose tracking raised has left both tables as it found them
FailedLeavesNothing ==
    \A w \in Workers : (Returned(w) /\ failed[w] # "") =>
        /\ page_views = before[w].pv
        /\ unique_visitors = before[w].uv

\* the stored tables change only in the commit of a request that raised nothing,
\* and then both at once: one page view is appended and the visitor row of the
\* same session carries the request's timestamp
BothTogether ==
    (page_views' # page_views \/ unique_visitors' # unique_visitors) =>
        \E w \in Workers :
            /\ pc[w] = "commit" /\ pc'[w] = "teardown" /\ failed'[w] = ""
            /\ Len(page_views') = Len(page_views) + 1
            /\ SubSeq(page_views', 1, Len(page_views)) = page_views
            /\ page_views'[Len(page_views')].session_id = sid[w]
            /\ \E i \in DOMAIN unique_visitors' :
                  /\ unique_visitors'[i].session_id = sid[w]
                  /\ unique_visitors'[i].last_visit = ts[w]

\* C10: in every stored state every page view's session has a visitor row, and
\* a request whose tracking fails after the upsert, after the insert or at the
\* commit leaves neither a visitor change nor a page view: the two writes become
\* durable together, in the one commit, or not at all.
C10_BothOrNeither ==
    /\ [](EveryViewHasVisitor /\ FailedLeavesNothing)
    /\ [][BothTogether]_vars

\* the insert raised after the upsert had run, in a store that already has rows
C10_Witness ==
    \E w \in Workers :
        /\ Returned(w) /\ failed[w] = "insert" /\ txn[w].open
        /\ txn[w].uv # unique_visitors
        /\ page_views # <<>>

ViewsOf(s) == {i \in DOMAIN page_views : page_views[i].session_id = s}
ObservedBy(s) == {commits[i][2] : i \in CommitsOf(s)}

\* a visitor row keeps its first_visit
FirstVisitSetOnce ==
    \A i \in DOMAIN unique_visitors :
        /\ i \in DOMAIN unique_visitors'
        /\ unique_visitors'[i].session_id = unique_visitors[i].session_id
        /\ unique_visitors'[i].first_visit = unique_visitors[i].first_visit

\* C4: however the requests of one session interleave, the store never holds two
\* visitor rows for it; every request that committed has its page view and its
\* visitor update in the store (none overwritten by another's stale copy);
\* first_visit and last_visit are timestamps those requests read, last_visit the
\* one of the request that committed last; and first_visit is set once.
C4_AtomicUpsert ==
    /\ [](\A s \in SessionsSeen :
            /\ Cardinality(RowsOf(s)) = 1
            /\ Cardinality(ViewsOf(s)) = Cardinality(CommitsOf(s))
            /\ \A i \in RowsOf(s) :
                  /\ unique_visitors[i].first_visit \in ObservedBy(s)
                  /\ unique_visitors[i].last_visit \in ObservedBy(s)
                  /\ unique_visitors[i].last_visit = commits[Max(CommitsOf(s))][2])
    /\ [][FirstVisitSetOnce]_vars

\* two requests of one session in flight at once, one holding the write lock,
\* the other about to upsert, the session already stored
C4_Witness ==
    /\ pc[1] = "commit" /\ pc[2] = "upsert" /\ lock = 1
    /\ sid[1] = sid[2]
    /\ RowsOf(sid[1]) # {}
    /\ ts[1] # commits[Max(CommitsOf(sid[1]))][2]

Names == <<"Chrome", "Firefox", "Safari", "Edge">>

RECURSIVE Folded(_)
Folded(s) == IF s = "" THEN "" ELSE FoldCase(Head(s)) \o Folded(Tail(s))

\* the first of the four names that occurs in the user agent, else Other:
\* in the exact letter case, and regardless of the case of ASCII letters
FirstNameExact(ua) ==
    LET hit == {k \in 1..4 : Contains(ua, Names[k])}
    IN  IF hit # {} THEN Names[Min(hit)] ELSE "Other"

FirstNameAnyCase(ua) ==
    LET low == Folded(ua)
        hit == {k \in 1..4 : Contains(low, Folded(Names[k]))}
    IN  IF hit # {} THEN Names[Min(hit)] ELSE "Other"

\* the breakdown q counts every page view once, cls[i] being the category of
\* the i-th page view
BreakdownBy(q, cls) ==
    /\ \A i, j \in DOMAIN q : i # j => q[i].browser # q[j].browser
    /\ \A i, j \in DOMAIN q : i < j => q[i].count >= q[j].count
    /\ \A i \in DOMAIN q : q[i].count >= 1
    /\ \A b \in {"Chrome", "Firefox", "Safari", "Edge", "Other"} :
          LET n == Cardinality({i \in DOMAIN cls : cls[i] = b})
          IN  IF n = 0 THEN \A i \in DOMAIN q : q[i].browser # b
              ELSE \E i \in DOMAIN q : q[i].browser = b /\ q[i].count = n

\* C7 as stated: the names are matched in their exact letter case.
C7_AsStated ==
    \A w \in Workers : dash[w].kind = "dashboard" =>
        BreakdownBy(dash[w].browser_stats,
                    [i \in DOMAIN page_views |-> FirstNameExact(page_views[i].user_agent)])

\* C7, amended: the browser breakdown puts every page view in exactly one
\* category, the first of Chrome, Firefox, Safari, Edge whose name occurs in the
\* user agent, else Other, the match ignoring the case of ASCII letters: a user
\* agent with "firefox" in any letter case and no "chrome" counts as Firefox.
C7_BrowserBreakdown ==
    \A w \in Workers : dash[w].kind = "dashboard" =>
        BreakdownBy(dash[w].browser_stats,
                    [i \in DOMAIN page_views |-> FirstNameAnyCase(page_views[i].user_agent)])

\* a dashboard over views by a Chrome (which also names Safari), by a Firefox
\* and by a client that names none of the four
C7_Witness ==
    \E w \in Workers :
        /\ dash[w].kind = "dashboard"
        /\ {page_views[i].user_agent : i \in DOMAIN page_views}
              = {"Chrome/120 Safari/537", "Firefox/121", "curl/8.4"}

\* C9: the chart reply has one entry per calendar day of the seven days ending
\* today that has a page view, dates ascending, each with the number of page
\* views of that day; days without views and days before the window are absent.
C9_VisitsOverTime ==
    \A w \in Workers : dash[w].kind = "chart" =>
        LET today  == dash[w].asof[1]
            days   == {d \in (today - 6)..today :
                          \E i \in DOMAIN page_views : page_views[i].timestamp[1] = d}
            dates  == dash[w].dates
            visits == dash[w].visits
        IN  /\ Len(dates) = Len(visits)
            /\ Len(dates) = Cardinality(days)
            /\ {dates[k] : k \in DOMAIN dates} = {<<d>> : d \in days}
            /\ \A j, k \in DOMAIN dates : j < k => dates[j][1] < dates[k][1]
            /\ \A k \in DOMAIN dates :
                  visits[k] = Cardinality({i \in DOMAIN page_views :
                                              page_views[i].timestamp[1] = dates[k][1]})

\* views on the first and the last day of the window and one before it: the
\* reply has exactly the two entries
C9_Witness ==
    \E w \in Workers :
        /\ dash[w].kind = "chart"
        /\ dash[w].asof[1] = 7
        /\ {page_views[i].timestamp[1] : i \in DOMAIN page_views} = {0, 1, 7}
        /\ dash[w].dates = <<<<1>>, <<7>>>>
        /\ dash[w].visits = <<1, 1>>

====
